---- MODULE Spec2Model ----
(***************************************************************************)
(* Model of the Express/Mongoose backend of the Instagram mini clone:      *)
(* routes/users.js (follow graph), routes/posts.js (posts, likes,          *)
(* comments), routes/comments.js and routes/feed.js.                       *)
(*                                                                         *)
(* Every route handler is an async function.  Between two awaits the       *)
(* handler runs without interruption on the event loop, and every awaited  *)
(* Mongoose call is one operation on the MongoDB server, which is atomic   *)
(* for a single document.  So a handler is modelled as one action per      *)
(* store operation: the operation together with the synchronous code that  *)
(* follows it, up to the next store operation or to the response.          *)
(***************************************************************************)
EXTENDS Integers, Sequences, FiniteSets, TLC

(***************************************************************************)
(* Universe                                                                *)
(***************************************************************************)
Users == {"u1", "u2", "u3"}            \* documents of the users collection
UserIds == Users \cup {"u9"}           \* ids a client can put in a URL
FollowUsers == {"u1", "u2"}            \* callers of the follow routes
FollowTargets == {"u1", "u2", "u9"}    \* :id values sent to the follow routes
Reqs == {"r1", "r2"}                   \* two requests can be in flight

MaxPosts == 3        \* posts ever created
MaxComments == 2     \* comments ever created
MaxVersion == 3      \* cap on a post's __v (number of saves of its likes)
MaxTime == 2         \* cap on the clock that stamps createdAt

PostIds == 1 .. MaxPosts
CommentIds == 1 .. MaxComments

VARIABLES
    follows,        \* follows collection: number of documents per (follower, following)
    posts,          \* posts collection: _id -> [user, createdAt, likes, v]
    comments,       \* comments collection: _id -> [post, user, createdAt]
    nextPostId,     \* the next _id Post.create hands out
    nextCommentId,  \* the next _id Comment.create hands out
    now,            \* the latest value Date.now() has returned
    req             \* per request slot: the handler's position, locals and response

vars == <<follows, posts, comments, nextPostId, nextCommentId, now, req>>

graphVars == <<follows>>
postVars == <<posts, nextPostId>>
commentVars == <<comments, nextCommentId>>

Pairs == Users \X UserIds

NoGraph == [e \in Pairs |-> 0]

NoDoc == [likes |-> <<>>, v |-> 0]

IdleReq ==
    [op |-> "none", pc |-> "idle", user |-> "u1", id |-> "u1", status |-> 0,
     conc |-> FALSE, followsBefore |-> NoGraph, followsAfter |-> NoGraph,
     postId |-> 0, commentId |-> 0, doc |-> NoDoc, likeCount |-> 0,
     isLiked |-> FALSE, commentList |-> <<>>, removed |-> {},
     text |-> [space |-> 0, chars |-> 0, pairs |-> 0],
     page |-> 0, limit |-> 0, scope |-> {}, seen |-> {}, feedPosts |-> <<>>,
     feedLiked |-> <<>>, feedCounts |-> <<>>, total |-> 0, pages |-> 0]

InFlight(r) == req[r].pc \notin {"idle", "done"}

\* A request arrives in slot r.  conc records that two requests overlapped.
Begin(r, rec) ==
    req' = [q \in Reqs |->
              IF q = r
              THEN [rec EXCEPT !.conc = \E o \in Reqs \ {r} : InFlight(o)]
              ELSE IF InFlight(q) THEN [req[q] EXCEPT !.conc = TRUE]
              ELSE req[q]]

\* res.status(code).json(...): the handler of slot r is finished.
RespondAt(r, code, graph) ==
    req' = [req EXCEPT ![r].pc = "done", ![r].status = code,
                       ![r].followsAfter = graph]

Respond(r, code) == RespondAt(r, code, follows)

(***************************************************************************)
(* models/Follow.js                                                        *)
(***************************************************************************)
FollowIndexMissing == FALSE

\* followSchema.index({ follower: 1, following: 1 }, { unique: true })
FollowUniqueIndex == TRUE

(***************************************************************************)
(* POST /api/users/:id/follow                                              *)
(***************************************************************************)
\* Variant without the "cannot follow yourself" test.
StartFollowNoSelfTest(r, u, t) ==
    /\ ~InFlight(r)
    /\ Begin(r, [IdleReq EXCEPT !.op = "follow", !.pc = "findUser",
                                !.user = u, !.id = t,
                                !.followsBefore = follows])
    /\ UNCHANGED <<follows, posts, comments, nextPostId, nextCommentId, now>>

StartFollow(r, u, t) ==
    /\ ~InFlight(r)
    /\ IF t = u
       THEN /\ req' = [req EXCEPT ![r] =
                         [IdleReq EXCEPT !.op = "follow", !.pc = "done",
                                         !.user = u, !.id = t, !.status = 400,
                                         !.followsBefore = follows,
                                         !.followsAfter = follows]]
       ELSE Begin(r, [IdleReq EXCEPT !.op = "follow", !.pc = "findUser",
                                     !.user = u, !.id = t,
                                     !.followsBefore = follows])
    /\ UNCHANGED <<follows, posts, comments, nextPostId, nextCommentId, now>>

\* Variant that does not look the target user up.
FollowFindUserNoLookup(r) ==
    /\ req[r].op = "follow" /\ req[r].pc = "findUser"
    /\ UNCHANGED <<follows, posts, comments, nextPostId, nextCommentId, now>>
    /\ req' = [req EXCEPT ![r].pc = "findExisting"]

\* User.findById(req.params.id)
FollowFindUser(r) ==
    /\ req[r].op = "follow" /\ req[r].pc = "findUser"
    /\ UNCHANGED <<follows, posts, comments, nextPostId, nextCommentId, now>>
    /\ IF req[r].id \notin Users
       THEN Respond(r, 404)
       ELSE req' = [req EXCEPT ![r].pc = "findExisting"]

FollowFindExisting(r) ==
    /\ req[r].op = "follow" /\ req[r].pc = "findExisting"
    /\ UNCHANGED <<follows, posts, comments, nextPostId, nextCommentId, now>>
    /\ IF follows[<<req[r].user, req[r].id>>] > 0
       THEN Respond(r, 400)
       ELSE req' = [req EXCEPT ![r].pc = "create"]

FollowCreate(r) ==
    /\ UNCHANGED <<posts, comments, nextPostId, nextCommentId, now>>
    /\ req[r].op = "follow" /\ req[r].pc = "create"
    /\ LET e == <<req[r].user, req[r].id>> IN
       IF FollowUniqueIndex /\ follows[e] > 0
       THEN /\ UNCHANGED follows
            /\ Respond(r, 500)
       ELSE /\ follows' = [follows EXCEPT ![e] = @ + 1]
            /\ RespondAt(r, 200, follows')

(***************************************************************************)
(* DELETE /api/users/:id/follow                                            *)
(***************************************************************************)
StartUnfollow(r, u, t) ==
    /\ ~InFlight(r)
    /\ IF t = u
       THEN /\ req' = [req EXCEPT ![r] =
                         [IdleReq EXCEPT !.op = "unfollow", !.pc = "done",
                                         !.user = u, !.id = t, !.status = 400,
                                         !.followsBefore = follows,
                                         !.followsAfter = follows]]
       ELSE Begin(r, [IdleReq EXCEPT !.op = "unfollow", !.pc = "findOneAndDelete",
                                     !.user = u, !.id = t,
                                     !.followsBefore = follows])
    /\ UNCHANGED <<follows, posts, comments, nextPostId, nextCommentId, now>>

\* Variant that reads the edge with findOne and never deletes it.
UnfollowFindOnly(r) ==
    /\ req[r].op = "unfollow" /\ req[r].pc = "findOneAndDelete"
    /\ UNCHANGED <<follows, posts, comments, nextPostId, nextCommentId, now>>
    /\ IF follows[<<req[r].user, req[r].id>>] > 0
       THEN Respond(r, 200)
       ELSE Respond(r, 400)

\* Variant that calls deleteOne() on the null result, which throws.
UnfollowThrowsOnMissing(r) ==
    /\ UNCHANGED <<posts, comments, nextPostId, nextCommentId, now>>
    /\ req[r].op = "unfollow" /\ req[r].pc = "findOneAndDelete"
    /\ LET e == <<req[r].user, req[r].id>> IN
       IF follows[e] > 0
       THEN /\ follows' = [follows EXCEPT ![e] = @ - 1]
            /\ RespondAt(r, 200, follows')
       ELSE /\ UNCHANGED follows
            /\ Respond(r, 500)

UnfollowFindOneAndDelete(r) ==
    /\ UNCHANGED <<posts, comments, nextPostId, nextCommentId, now>>
    /\ req[r].op = "unfollow" /\ req[r].pc = "findOneAndDelete"
    /\ LET e == <<req[r].user, req[r].id>> IN
       IF follows[e] > 0
       THEN /\ follows' = [follows EXCEPT ![e] = @ - 1]
            /\ RespondAt(r, 200, follows')
       ELSE /\ UNCHANGED follows
            /\ Respond(r, 400)

(***************************************************************************)
(* Mongoose arrays and documents                                           *)
(***************************************************************************)
\* post.likes.includes(req.user.id)
Includes(likes, u) == \E i \in DOMAIN likes : likes[i] = u

\* post.likes.filter(id => id.toString() !== req.user.id)
Without(likes, u) == SelectSeq(likes, LAMBDA x : x # u)

Occurrences(likes, u) == Cardinality({i \in DOMAIN likes : likes[i] = u})

Exists(p) == p \in DOMAIN posts

\* The orders in which .sort({ createdAt: -1 }) can return the documents S of
\* collection coll: newest first, documents of equal createdAt in any order.
IsNewestFirst(coll, s) ==
    \A i, j \in DOMAIN s : i < j => coll[s[i]].createdAt >= coll[s[j]].createdAt

NewestFirst(coll, S) ==
    {s \in [1 .. Cardinality(S) -> S] :
        /\ \A i, j \in DOMAIN s : i # j => s[i] # s[j]
        /\ IsNewestFirst(coll, s)}

Remove(f, k) == [x \in DOMAIN f \ {k} |-> f[x]]

\* like and unlike requests on post p that may still save it
PendingSaves(p) ==
    Cardinality({r \in Reqs : /\ InFlight(r)
                              /\ req[r].op \in {"like", "unlike"}
                              /\ req[r].postId = p})

(***************************************************************************)
(* POST /api/posts                                                         *)
(***************************************************************************)
MaxCaption == 2200
ImageUrls == {"", "no url", "http://img.example/1.png"}
CaptionLengths == {0, 2200, 2201}

NotEmpty(str) == str # ""
IsURL(str) == str = "http://img.example/1.png"

\* t is the time at which Post.create stamps createdAt.
CreatePost(r, u, imageUrl, captionLength, t) ==
    /\ ~InFlight(r)
    /\ nextPostId <= MaxPosts
    /\ t \in now .. MaxTime
    /\ UNCHANGED <<follows, comments, nextCommentId>>
    /\ IF ~(NotEmpty(imageUrl) /\ IsURL(imageUrl)) \/ captionLength > MaxCaption
       THEN /\ UNCHANGED <<posts, nextPostId, now>>
            /\ req' = [req EXCEPT ![r] =
                         [IdleReq EXCEPT !.op = "createPost", !.pc = "done",
                                         !.user = u, !.status = 400]]
       ELSE /\ posts' = (nextPostId :> [user |-> u, createdAt |-> t,
                                        likes |-> <<>>, v |-> 0]) @@ posts
            /\ nextPostId' = nextPostId + 1
            /\ now' = t
            /\ req' = [req EXCEPT ![r] =
                         [IdleReq EXCEPT !.op = "createPost", !.pc = "done",
                                         !.user = u, !.postId = nextPostId,
                                         !.status = 201]]

(***************************************************************************)
(* DELETE /api/posts/:id                                                   *)
(***************************************************************************)
StartDeletePost(r, u, p) ==
    /\ ~InFlight(r)
    /\ Begin(r, [IdleReq EXCEPT !.op = "deletePost", !.pc = "findById",
                                !.user = u, !.postId = p])
    /\ UNCHANGED <<follows, posts, comments, nextPostId, nextCommentId, now>>

\* Variant without the ownership test.
DeletePostFindByIdNoOwnerTest(r) ==
    /\ req[r].op = "deletePost" /\ req[r].pc = "findById"
    /\ UNCHANGED <<follows, posts, comments, nextPostId, nextCommentId, now>>
    /\ IF ~Exists(req[r].postId)
       THEN Respond(r, 404)
       ELSE req' = [req EXCEPT ![r].pc = "deleteMany"]

DeletePostFindById(r) ==
    /\ req[r].op = "deletePost" /\ req[r].pc = "findById"
    /\ UNCHANGED <<follows, posts, comments, nextPostId, nextCommentId, now>>
    /\ IF ~Exists(req[r].postId)
       THEN Respond(r, 404)
       ELSE IF posts[req[r].postId].user # req[r].user
       THEN Respond(r, 401)
       ELSE req' = [req EXCEPT ![r].pc = "deleteMany"]

\* Comment.deleteMany({ post: post._id }); removed records the comments it
\* deleted.
DeletePostDeleteMany(r) ==
    /\ req[r].op = "deletePost" /\ req[r].pc = "deleteMany"
    /\ comments' = [c \in {x \in DOMAIN comments : comments[x].post # req[r].postId}
                      |-> comments[c]]
    /\ req' = [req EXCEPT ![r].pc = "deleteOne",
                          ![r].removed = {c \in DOMAIN comments :
                                            comments[c].post = req[r].postId}]
    /\ UNCHANGED <<follows, posts, nextPostId, nextCommentId, now>>

\* post.deleteOne(); deleting a document that is already gone is no error
DeletePostDeleteOne(r) ==
    /\ req[r].op = "deletePost" /\ req[r].pc = "deleteOne"
    /\ posts' = Remove(posts, req[r].postId)
    /\ Respond(r, 200)
    /\ UNCHANGED <<follows, comments, nextPostId, nextCommentId, now>>

(***************************************************************************)
(* POST /api/posts/:id/like                                                *)
(***************************************************************************)
StartLike(r, u, p) ==
    /\ ~InFlight(r)
    /\ Exists(p) => posts[p].v + PendingSaves(p) < MaxVersion
    /\ Begin(r, [IdleReq EXCEPT !.op = "like", !.pc = "findById",
                                !.user = u, !.postId = p])
    /\ UNCHANGED <<follows, posts, comments, nextPostId, nextCommentId, now>>

\* Variant without the "already liked" test.
LikeFindByIdNoTest(r) ==
    /\ req[r].op = "like" /\ req[r].pc = "findById"
    /\ UNCHANGED <<follows, posts, comments, nextPostId, nextCommentId, now>>
    /\ IF ~Exists(req[r].postId)
       THEN Respond(r, 404)
       ELSE req' = [req EXCEPT
                      ![r].pc = "save",
                      ![r].doc = [likes |-> Append(posts[req[r].postId].likes,
                                                   req[r].user),
                                  v |-> posts[req[r].postId].v]]

\* findById, the two tests and post.likes.push(req.user.id) on the loaded copy
LikeFindById(r) ==
    /\ req[r].op = "like" /\ req[r].pc = "findById"
    /\ UNCHANGED <<follows, posts, comments, nextPostId, nextCommentId, now>>
    /\ IF ~Exists(req[r].postId)
       THEN Respond(r, 404)
       ELSE IF Includes(posts[req[r].postId].likes, req[r].user)
       THEN Respond(r, 400)
       ELSE req' = [req EXCEPT
                      ![r].pc = "save",
                      ![r].doc = [likes |-> Append(posts[req[r].postId].likes,
                                                   req[r].user),
                                  v |-> posts[req[r].postId].v]]

\* Variant that writes the whole loaded array back ($set) instead of $push.
LikeSaveWholeArray(r) ==
    /\ req[r].op = "like" /\ req[r].pc = "save"
    /\ UNCHANGED <<follows, comments, nextPostId, nextCommentId, now>>
    /\ IF ~Exists(req[r].postId)
       THEN /\ UNCHANGED posts
            /\ Respond(r, 500)
       ELSE /\ posts' = [posts EXCEPT ![req[r].postId].likes = req[r].doc.likes,
                                      ![req[r].postId].v = @ + 1]
            /\ req' = [req EXCEPT ![r].pc = "done", ![r].status = 200,
                                  ![r].likeCount = Len(req[r].doc.likes)]

\* post.save() after a push: Mongoose sends
\*   updateOne({_id}, {$push: {likes: {$each: [user]}}, $inc: {__v: 1}})
\* and throws when no document matched.
LikeSave(r) ==
    /\ req[r].op = "like" /\ req[r].pc = "save"
    /\ UNCHANGED <<follows, comments, nextPostId, nextCommentId, now>>
    /\ IF ~Exists(req[r].postId)
       THEN /\ UNCHANGED posts
            /\ Respond(r, 500)
       ELSE /\ posts' = [posts EXCEPT ![req[r].postId].likes = Append(@, req[r].user),
                                      ![req[r].postId].v = @ + 1]
            /\ req' = [req EXCEPT ![r].pc = "done", ![r].status = 200,
                                  ![r].likeCount = Len(req[r].doc.likes)]

(***************************************************************************)
(* DELETE /api/posts/:id/like                                              *)
(***************************************************************************)
StartUnlike(r, u, p) ==
    /\ ~InFlight(r)
    /\ Exists(p) => posts[p].v + PendingSaves(p) < MaxVersion
    /\ Begin(r, [IdleReq EXCEPT !.op = "unlike", !.pc = "findById",
                                !.user = u, !.postId = p])
    /\ UNCHANGED <<follows, posts, comments, nextPostId, nextCommentId, now>>

\* findById, the two tests and the assignment of the filtered array
UnlikeFindById(r) ==
    /\ req[r].op = "unlike" /\ req[r].pc = "findById"
    /\ UNCHANGED <<follows, posts, comments, nextPostId, nextCommentId, now>>
    /\ IF ~Exists(req[r].postId)
       THEN Respond(r, 404)
       ELSE IF ~Includes(posts[req[r].postId].likes, req[r].user)
       THEN Respond(r, 400)
       ELSE req' = [req EXCEPT
                      ![r].pc = "save",
                      ![r].doc = [likes |-> Without(posts[req[r].postId].likes,
                                                    req[r].user),
                                  v |-> posts[req[r].postId].v]]

\* post.save() after assigning a new array: Mongoose sends
\*   updateOne({_id, __v: loaded}, {$set: {likes: [...]}, $inc: {__v: 1}})
\* and throws a VersionError when no document matched.
UnlikeSave(r) ==
    /\ req[r].op = "unlike" /\ req[r].pc = "save"
    /\ UNCHANGED <<follows, comments, nextPostId, nextCommentId, now>>
    /\ IF ~Exists(req[r].postId) \/ posts[req[r].postId].v # req[r].doc.v
       THEN /\ UNCHANGED posts
            /\ Respond(r, 500)
       ELSE /\ posts' = [posts EXCEPT ![req[r].postId].likes = req[r].doc.likes,
                                      ![req[r].postId].v = @ + 1]
            /\ req' = [req EXCEPT ![r].pc = "done", ![r].status = 200,
                                  ![r].likeCount = Len(req[r].doc.likes)]

(***************************************************************************)
(* POST /api/posts/:id/comments                                            *)
(***************************************************************************)
MaxCommentLength == 1000

\* models/Comment.js: text: { maxlength: [1000, ...] }
SchemaMaxLength == 1000

\* A text is its surrounding white space and the characters (code points) in
\* between; pairs is how many of those characters lie outside the Basic
\* Multilingual Plane, each of which a JavaScript string holds as a surrogate
\* pair of two code units.
CommentTexts ==
    {[space |-> 0, chars |-> 0, pairs |-> 0],
     [space |-> 2, chars |-> 0, pairs |-> 0],
     [space |-> 0, chars |-> 1, pairs |-> 0],
     [space |-> 1, chars |-> 1000, pairs |-> 0],
     [space |-> 0, chars |-> 1001, pairs |-> 0],
     [space |-> 0, chars |-> 600, pairs |-> 600]}

Trim(text) == [text EXCEPT !.space = 0]

\* String.prototype.length: the number of UTF-16 code units
Length(text) == text.space + text.chars + text.pairs

\* validator's isLength({ max }) counts a surrogate pair once.
IsLength(text, max) == Length(text) - text.pairs <= max

\* body('text').trim().notEmpty().isLength({ max: 1000 })
ValidCommentText(text) ==
    /\ Length(Trim(text)) > 0
    /\ IsLength(Trim(text), MaxCommentLength)

\* The maxlength validator of the schema compares text.length.
ValidCommentDoc(text) == Length(text) <= SchemaMaxLength

\* The sanitizer replaces req.body.text by the trimmed text.
StartAddComment(r, u, p, text) ==
    /\ ~InFlight(r)
    /\ UNCHANGED <<follows, posts, comments, nextPostId, nextCommentId, now>>
    /\ IF ~ValidCommentText(text)
       THEN req' = [req EXCEPT ![r] =
                      [IdleReq EXCEPT !.op = "addComment", !.pc = "done",
                                      !.user = u, !.postId = p,
                                      !.text = Trim(text), !.status = 400]]
       ELSE Begin(r, [IdleReq EXCEPT !.op = "addComment", !.pc = "findById",
                                     !.user = u, !.postId = p,
                                     !.text = Trim(text)])

AddCommentFindById(r) ==
    /\ req[r].op = "addComment" /\ req[r].pc = "findById"
    /\ UNCHANGED <<follows, posts, comments, nextPostId, nextCommentId, now>>
    /\ IF ~Exists(req[r].postId)
       THEN Respond(r, 404)
       ELSE req' = [req EXCEPT ![r].pc = "create"]

\* Comment.create({ post: req.params.id, user, text }), stamped at time t; a
\* document the schema rejects throws a ValidationError, which the catch
\* block answers with 500.
AddCommentCreate(r, t) ==
    /\ req[r].op = "addComment" /\ req[r].pc = "create"
    /\ t \in now .. MaxTime
    /\ UNCHANGED <<follows, posts, nextPostId>>
    /\ IF ~ValidCommentDoc(req[r].text)
       THEN /\ UNCHANGED <<comments, nextCommentId, now>>
            /\ Respond(r, 500)
       ELSE /\ nextCommentId <= MaxComments
            /\ comments' = (nextCommentId :> [post |-> req[r].postId,
                                              user |-> req[r].user,
                                              createdAt |-> t]) @@ comments
            /\ nextCommentId' = nextCommentId + 1
            /\ now' = t
            /\ req' = [req EXCEPT ![r].pc = "done", ![r].status = 201,
                                  ![r].commentId = nextCommentId]

(***************************************************************************)
(* DELETE /api/comments/:id                                                *)
(***************************************************************************)
StartDeleteComment(r, u, c) ==
    /\ ~InFlight(r)
    /\ Begin(r, [IdleReq EXCEPT !.op = "deleteComment", !.pc = "findById",
                                !.user = u, !.commentId = c])
    /\ UNCHANGED <<follows, posts, comments, nextPostId, nextCommentId, now>>

\* Variant without the authorship test.
DeleteCommentFindByIdNoAuthorTest(r) ==
    /\ req[r].op = "deleteComment" /\ req[r].pc = "findById"
    /\ UNCHANGED <<follows, posts, comments, nextPostId, nextCommentId, now>>
    /\ IF req[r].commentId \notin DOMAIN comments
       THEN Respond(r, 404)
       ELSE req' = [req EXCEPT ![r].pc = "deleteOne"]

DeleteCommentFindById(r) ==
    /\ req[r].op = "deleteComment" /\ req[r].pc = "findById"
    /\ UNCHANGED <<follows, posts, comments, nextPostId, nextCommentId, now>>
    /\ IF req[r].commentId \notin DOMAIN comments
       THEN Respond(r, 404)
       ELSE IF comments[req[r].commentId].user # req[r].user
       THEN Respond(r, 401)
       ELSE req' = [req EXCEPT ![r].pc = "deleteOne"]

DeleteCommentDeleteOne(r) ==
    /\ req[r].op = "deleteComment" /\ req[r].pc = "deleteOne"
    /\ comments' = Remove(comments, req[r].commentId)
    /\ Respond(r, 200)
    /\ UNCHANGED <<follows, posts, nextPostId, nextCommentId, now>>

(***************************************************************************)
(* GET /api/posts/:id                                                      *)
(***************************************************************************)
StartGetPost(r, u, p) ==
    /\ ~InFlight(r)
    /\ Begin(r, [IdleReq EXCEPT !.op = "getPost", !.pc = "findById",
                                !.user = u, !.postId = p])
    /\ UNCHANGED <<follows, posts, comments, nextPostId, nextCommentId, now>>

GetPostFindById(r) ==
    /\ req[r].op = "getPost" /\ req[r].pc = "findById"
    /\ UNCHANGED <<follows, posts, comments, nextPostId, nextCommentId, now>>
    /\ IF ~Exists(req[r].postId)
       THEN Respond(r, 404)
       ELSE req' = [req EXCEPT
                      ![r].pc = "findComments",
                      ![r].doc = [likes |-> posts[req[r].postId].likes,
                                  v |-> posts[req[r].postId].v]]

\* Comment.find({ post: post._id }).sort({ createdAt: -1 }), then isLiked
GetPostFindComments(r) ==
    /\ req[r].op = "getPost" /\ req[r].pc = "findComments"
    /\ UNCHANGED <<follows, posts, comments, nextPostId, nextCommentId, now>>
    /\ \E s \in NewestFirst(comments,
                            {c \in DOMAIN comments : comments[c].post = req[r].postId}) :
          req' = [req EXCEPT ![r].pc = "done", ![r].status = 200,
                             ![r].commentList = s,
                             ![r].isLiked = Includes(req[r].doc.likes, req[r].user)]

(***************************************************************************)
(* GET /api/posts/:id/comments                                             *)
(***************************************************************************)
ListComments(r, u, p) ==
    /\ ~InFlight(r)
    /\ UNCHANGED <<follows, posts, comments, nextPostId, nextCommentId, now>>
    /\ \E s \in NewestFirst(comments, {c \in DOMAIN comments : comments[c].post = p}) :
          req' = [req EXCEPT ![r] =
                    [IdleReq EXCEPT !.op = "listComments", !.pc = "done",
                                    !.user = u, !.postId = p, !.status = 200,
                                    !.commentList = s]]

(***************************************************************************)
(* GET /api/feed                                                           *)
(***************************************************************************)
DefaultPage == 1
DefaultLimit == 10

\* parseInt(req.query.x) || d: a missing, non-numeric or zero parameter (all
\* written 0 here) gives the default; any other integer, a negative one
\* included, is taken as it is.
ParseIntOr(n, d) == IF n = 0 THEN d ELSE n

Min(a, b) == IF a <= b THEN a ELSE b

\* Math.ceil(total / limit)
Ceil(total, limit) == (total + limit - 1) \div limit

\* .skip(skip).limit(limit) of a sorted result
Slice(s, skip, limit) == SubSeq(s, skip + 1, Min(skip + limit, Len(s)))

InScope(scope) == {p \in DOMAIN posts : posts[p].user \in scope}

NotCounted == 0 - 1

StartFeed(r, u, pageQuery, limitQuery) ==
    /\ ~InFlight(r)
    /\ Begin(r, [IdleReq EXCEPT !.op = "feed", !.pc = "findFollowing",
                                !.user = u,
                                !.page = ParseIntOr(pageQuery, DefaultPage),
                                !.limit = ParseIntOr(limitQuery, DefaultLimit)])
    /\ UNCHANGED <<follows, posts, comments, nextPostId, nextCommentId, now>>

\* Follow.find({ follower }), then followingIds.push(req.user.id)
FeedFindFollowing(r) ==
    /\ req[r].op = "feed" /\ req[r].pc = "findFollowing"
    /\ req' = [req EXCEPT
                 ![r].pc = "findPosts",
                 ![r].scope = {t \in UserIds : follows[<<req[r].user, t>>] > 0}
                                 \cup {req[r].user}]
    /\ UNCHANGED <<follows, posts, comments, nextPostId, nextCommentId, now>>

\* Variant that leaves the caller's own id out of followingIds.
FeedFindPostsNotOwn(r) ==
    /\ req[r].op = "feed" /\ req[r].pc = "findPosts"
    /\ IF (req[r].page - 1) * req[r].limit < 0
       THEN Respond(r, 500)
       ELSE \E s \in NewestFirst(posts, InScope(req[r].scope \ {req[r].user})) :
          LET shown == Slice(s, (req[r].page - 1) * req[r].limit, req[r].limit) IN
          req' = [req EXCEPT
                    ![r].pc = "countPosts",
                    ![r].seen = DOMAIN posts,
                    ![r].feedPosts = shown,
                    ![r].feedLiked = [i \in DOMAIN shown |->
                                        Includes(posts[shown[i]].likes, req[r].user)],
                    ![r].feedCounts = [i \in DOMAIN shown |-> NotCounted]]
    /\ UNCHANGED <<follows, posts, comments, nextPostId, nextCommentId, now>>

\* Post.find({ user: { $in: followingIds } }).sort({ createdAt: -1 })
\*     .skip(skip).limit(limit); the server refuses a negative skip, and the
\* catch block answers the error with 500.
FeedFindPosts(r) ==
    /\ req[r].op = "feed" /\ req[r].pc = "findPosts"
    /\ IF (req[r].page - 1) * req[r].limit < 0
       THEN Respond(r, 500)
       ELSE \E s \in NewestFirst(posts, InScope(req[r].scope)) :
          LET shown == Slice(s, (req[r].page - 1) * req[r].limit, req[r].limit) IN
          req' = [req EXCEPT
                    ![r].pc = "countPosts",
                    ![r].seen = DOMAIN posts,
                    ![r].feedPosts = shown,
                    ![r].feedLiked = [i \in DOMAIN shown |->
                                        Includes(posts[shown[i]].likes, req[r].user)],
                    ![r].feedCounts = [i \in DOMAIN shown |-> NotCounted]]
    /\ UNCHANGED <<follows, posts, comments, nextPostId, nextCommentId, now>>

\* Post.countDocuments({ user: { $in: followingIds } }); with an empty page
\* Promise.all([]) resolves at once and the response follows.
FeedCountPosts(r) ==
    /\ req[r].op = "feed" /\ req[r].pc = "countPosts"
    /\ LET total == Cardinality(InScope(req[r].scope)) IN
       req' = [req EXCEPT
                 ![r].total = total,
                 ![r].pages = Ceil(total, req[r].limit),
                 ![r].pc = IF req[r].feedPosts = <<>> THEN "done" ELSE "countComments",
                 ![r].status = IF req[r].feedPosts = <<>> THEN 200 ELSE 0]
    /\ UNCHANGED <<follows, posts, comments, nextPostId, nextCommentId, now>>

\* Variant that counts the comments of all posts.
FeedCountCommentsOfAllPosts(r, i) ==
    /\ req[r].op = "feed" /\ req[r].pc = "countComments"
    /\    /\ i \in DOMAIN req[r].feedPosts
          /\ req[r].feedCounts[i] = NotCounted
          /\ LET counts == [req[r].feedCounts EXCEPT
                              ![i] = Cardinality(DOMAIN comments)]
                 last == \A j \in DOMAIN counts : counts[j] # NotCounted
             IN  req' = [req EXCEPT
                           ![r].feedCounts = counts,
                           ![r].pc = IF last THEN "done" ELSE "countComments",
                           ![r].status = IF last THEN 200 ELSE 0]
    /\ UNCHANGED <<follows, posts, comments, nextPostId, nextCommentId, now>>

\* The Comment.countDocuments({ post: post._id }) for the i-th post of the
\* page, one of the queries of the Promise.all; the response is sent when the
\* last of them has resolved.
FeedCountComments(r, i) ==
    /\ req[r].op = "feed" /\ req[r].pc = "countComments"
    /\    /\ i \in DOMAIN req[r].feedPosts
          /\ req[r].feedCounts[i] = NotCounted
          /\ LET counts == [req[r].feedCounts EXCEPT
                              ![i] = Cardinality({c \in DOMAIN comments :
                                          comments[c].post = req[r].feedPosts[i]})]
                 last == \A j \in DOMAIN counts : counts[j] # NotCounted
             IN  req' = [req EXCEPT
                           ![r].feedCounts = counts,
                           ![r].pc = IF last THEN "done" ELSE "countComments",
                           ![r].status = IF last THEN 200 ELSE 0]
    /\ UNCHANGED <<follows, posts, comments, nextPostId, nextCommentId, now>>

(***************************************************************************)
(* Specifications                                                          *)
(***************************************************************************)
Init ==
    /\ follows = NoGraph
    /\ posts = <<>>
    /\ comments = <<>>
    /\ nextPostId = 1
    /\ nextCommentId = 1
    /\ now = 1
    /\ req = [r \in Reqs |-> IdleReq]

NextFollow ==
    \E r \in Reqs :
        \/ \E u \in FollowUsers, t \in FollowTargets : StartFollow(r, u, t)
        \/ FollowFindUser(r)
        \/ FollowFindExisting(r)
        \/ FollowCreate(r)
        \/ \E u \in FollowUsers, t \in FollowTargets : StartUnfollow(r, u, t)
        \/ UnfollowFindOneAndDelete(r)

SpecFollow == Init /\ [][NextFollow]_vars

\* Likes: one post of u1, liked and unliked by three users; u1 and u2 ask to
\* delete it.  Post id 2 is never created.
LikePostIds == {1, 2}
PostOwners == {"u1"}
PostDeleters == {"u1", "u2"}

NextLikes ==
    \E r \in Reqs :
        \/ /\ nextPostId = 1
           /\ \E u \in PostOwners : CreatePost(r, u, "http://img.example/1.png", 0, now)
        \/ \E u \in Users, p \in LikePostIds : StartLike(r, u, p)
        \/ LikeFindById(r)
        \/ LikeSave(r)
        \/ \E u \in Users, p \in LikePostIds : StartUnlike(r, u, p)
        \/ UnlikeFindById(r)
        \/ UnlikeSave(r)
        \/ \E u \in PostDeleters, p \in LikePostIds : StartDeletePost(r, u, p)
        \/ DeletePostFindById(r)
        \/ DeletePostDeleteMany(r)
        \/ DeletePostDeleteOne(r)

SpecLikes == Init /\ [][NextLikes]_vars

\* Comments: two posts of u1, commented on and read by u2; u1 and u2 ask to
\* delete them.  An id is unknown before its post is created and after the
\* post is deleted.
CommentPostIds == {1, 2}
CommentAuthors == {"u2"}
MaxCommentedPosts == 2
ShortTexts == {t \in CommentTexts : t.chars <= 1}

NextComments ==
    \E r \in Reqs :
        \/ /\ nextPostId <= MaxCommentedPosts
           /\ \E u \in PostOwners : CreatePost(r, u, "http://img.example/1.png", 0, now)
        \/ \E u \in CommentAuthors, p \in CommentPostIds, text \in ShortTexts :
              StartAddComment(r, u, p, text)
        \/ AddCommentFindById(r)
        \/ AddCommentCreate(r, now)
        \/ \E u \in PostDeleters, p \in CommentPostIds : StartDeletePost(r, u, p)
        \/ DeletePostFindById(r)
        \/ DeletePostDeleteMany(r)
        \/ DeletePostDeleteOne(r)
        \/ \E u \in CommentAuthors, p \in CommentPostIds : StartGetPost(r, u, p)
        \/ GetPostFindById(r)
        \/ GetPostFindComments(r)

SpecComments == Init /\ [][NextComments]_vars

\* Rules of the comment routes: one post of u1 (post id 2 is never created),
\* commented on by u2 with every kind of text; u1 and u2 ask to delete the
\* comments and the post and list the comments.  A comment id is unknown
\* before its comment is created and after it is deleted.
RulePostIds == {1, 2}
RuleUsers == {"u1", "u2"}

NextCommentRules ==
    \E r \in Reqs :
        \/ /\ nextPostId = 1
           /\ \E u \in PostOwners : CreatePost(r, u, "http://img.example/1.png", 0, now)
        \/ \E u \in CommentAuthors, p \in RulePostIds, text \in CommentTexts :
              StartAddComment(r, u, p, text)
        \/ AddCommentFindById(r)
        \/ AddCommentCreate(r, now)
        \/ \E u \in RuleUsers, c \in CommentIds : StartDeleteComment(r, u, c)
        \/ DeleteCommentFindById(r)
        \/ DeleteCommentDeleteOne(r)
        \/ \E u \in RuleUsers, p \in RulePostIds : StartDeletePost(r, u, p)
        \/ DeletePostFindById(r)
        \/ DeletePostDeleteMany(r)
        \/ DeletePostDeleteOne(r)
        \/ \E u \in RuleUsers, p \in RulePostIds : ListComments(r, u, p)

SpecCommentRules == Init /\ [][NextCommentRules]_vars

\* Feed without concurrent requests: a request starts when no other is in
\* flight.  u1 reads the feed; u1 and u2 post; u1 follows u2.  Writes arrive in
\* slot r2, so that slot r1 keeps a feed response while the store changes.
Quiet == \A r \in Reqs : ~InFlight(r)
\* The queries of the Promise.all are issued in the order of the page.  No
\* write runs during a feed request here, so the order in which they resolve
\* cannot be observed and they are taken in the order of issue.
Uncounted(r) == {i \in DOMAIN req[r].feedPosts : req[r].feedCounts[i] = NotCounted}
FirstUncounted(r) == {i \in Uncounted(r) : \A j \in Uncounted(r) : i <= j}
FeedViewers == {"u1"}
FeedAuthors == {"u1", "u2"}
FeedFollowed == {"u2"}
FeedWriters == {"r2"}
PageQueries == {0 - 1, 0, 1, 2}
LimitQueries == {0, 1, 2}

FeedReaders == {"r1"}

\* One client reading the feed while posts are created and users followed and
\* unfollowed between its requests.
NextFeed ==
    \/ \E r \in FeedWriters :
        \/ /\ Quiet
           /\ \E u \in FeedAuthors, t \in {now, now + 1} :
                 CreatePost(r, u, "http://img.example/1.png", 0, t)
        \/ /\ Quiet
           /\ \E u \in FeedViewers, t \in FeedFollowed : StartFollow(r, u, t)
        \/ FollowFindUser(r)
        \/ FollowFindExisting(r)
        \/ FollowCreate(r)
        \/ /\ Quiet
           /\ \E u \in FeedViewers, t \in FeedFollowed : StartUnfollow(r, u, t)
        \/ UnfollowFindOneAndDelete(r)
    \/ \E r \in FeedReaders :
        \/ /\ Quiet
           /\ \E u \in FeedViewers, page \in PageQueries, limit \in LimitQueries :
                 StartFeed(r, u, page, limit)
        \/ FeedFindFollowing(r)
        \/ FeedFindPosts(r)
        \/ FeedCountPosts(r)
        \/ \E i \in FirstUncounted(r) : FeedCountComments(r, i)

SpecFeed == Init /\ [][NextFeed]_vars

\* Feed requests in both slots, so that the responses to two successive
\* requests of a client are both on record, with posts created and users
\* followed between them.
NextPaging ==
    \/ \E r \in FeedWriters :
        \/ /\ Quiet
           /\ \E u \in FeedAuthors, t \in {now, now + 1} :
                 CreatePost(r, u, "http://img.example/1.png", 0, t)
        \/ /\ Quiet
           /\ \E u \in FeedViewers, t \in FeedFollowed : StartFollow(r, u, t)
        \/ FollowFindUser(r)
        \/ FollowFindExisting(r)
        \/ FollowCreate(r)
    \/ \E r \in Reqs :
        \/ /\ Quiet
           /\ \E u \in FeedViewers, page \in PageQueries, limit \in LimitQueries :
                 StartFeed(r, u, page, limit)
        \/ FeedFindFollowing(r)
        \/ FeedFindPosts(r)
        \/ FeedCountPosts(r)
        \/ \E i \in FirstUncounted(r) : FeedCountComments(r, i)

SpecPaging == Init /\ [][NextPaging]_vars

\* Post details without concurrent requests: up to two posts of u1, liked by
\* u1 and u2 and commented on by u2 at the same or a later time; u1 reads the
\* first page of the feed and single posts in slot r1.  Writes arrive in
\* slot r2.
DetailPostIds == {1, 2}
DetailLikers == {"u1", "u2"}

NextDetails ==
    \/ \E r \in FeedWriters :
        \/ /\ Quiet
           /\ nextPostId \in DetailPostIds
           /\ \E u \in PostOwners : CreatePost(r, u, "http://img.example/1.png", 0, now)
        \/ /\ Quiet
           /\ \E u \in DetailLikers, p \in DetailPostIds : StartLike(r, u, p)
        \/ LikeFindById(r)
        \/ LikeSave(r)
        \/ /\ Quiet
           /\ \E u \in CommentAuthors, p \in DetailPostIds :
                 StartAddComment(r, u, p, [space |-> 0, chars |-> 1, pairs |-> 0])
        \/ AddCommentFindById(r)
        \/ \E t \in {now, now + 1} : AddCommentCreate(r, t)
    \/ \E r \in FeedReaders :
        \/ /\ Quiet
           /\ \E u \in FeedViewers : StartFeed(r, u, 0, 0)
        \/ FeedFindFollowing(r)
        \/ FeedFindPosts(r)
        \/ FeedCountPosts(r)
        \/ \E i \in FirstUncounted(r) : FeedCountComments(r, i)
        \/ /\ Quiet
           /\ \E u \in FeedViewers, p \in DetailPostIds : StartGetPost(r, u, p)
        \/ GetPostFindById(r)
        \/ GetPostFindComments(r)

SpecDetails == Init /\ [][NextDetails]_vars

(***************************************************************************)
(* Follow graph properties                                                 *)
(***************************************************************************)
Edge(q) == <<q.user, q.id>>

AddEdge(g, e) == [g EXCEPT ![e] = @ + 1]

IsDone(r, op) == req[r].op = op /\ req[r].pc = "done"

\* A finished request that overlapped no other request: followsBefore and
\* followsAfter are the graph right before and right after it.
Alone(r, op) == IsDone(r, op) /\ ~req[r].conc

\* C3: in every reachable state there is at most one follow edge per ordered
\* (follower, following) pair, also when two follow requests of the same
\* follower for the same target interleave between the existence check and
\* the insert.
C3_AtMostOneEdgePerPair == \A e \in Pairs : follows[e] <= 1

\* Two follow requests for the same pair both passed the existence check;
\* one inserted the edge and the other one's insert was refused.
C3_Witness ==
    \E r1, r2 \in Reqs :
        /\ r1 # r2
        /\ IsDone(r1, "follow") /\ IsDone(r2, "follow")
        /\ Edge(req[r1]) = Edge(req[r2])
        /\ req[r1].status = 200 /\ req[r2].status = 500
        /\ follows[Edge(req[r1])] = 1

\* C4: follow(U, U) and unfollow(U, U) fail for every user U in every state
\* and leave the follow graph as it was, so no reachable state holds an edge
\* whose follower equals its following.
C4_NoSelfFollow ==
    /\ \A u \in Users : follows[<<u, u>>] = 0
    /\ \A r \in Reqs :
          (req[r].op \in {"follow", "unfollow"} /\ req[r].user = req[r].id)
              => /\ req[r].pc = "done"
                 /\ req[r].status = 400
                 /\ req[r].followsAfter = req[r].followsBefore

\* A self-follow and a self-unfollow were both answered while the graph
\* already held an edge.
C4_Witness ==
    \E r1, r2 \in Reqs :
        /\ IsDone(r1, "follow") /\ req[r1].user = req[r1].id
        /\ IsDone(r2, "unfollow") /\ req[r2].user = req[r2].id
        /\ \E e \in Pairs : req[r1].followsBefore[e] > 0

\* C5: for users A # B where A does not follow B, follow(A,B) followed by
\* unfollow(A,B) both succeed and leave the set of follow edges equal to the
\* set before the follow; a further unfollow(A,B) with no follow in between
\* fails with NotFollowing (400) and changes nothing.
C5_FollowUnfollowRoundTrip ==
    \A r1, r2 \in Reqs :
        LET f == req[r1]
            u == req[r2]
        IN  /\ (/\ Alone(r1, "follow") /\ f.user # f.id /\ f.id \in Users
                /\ f.followsBefore[Edge(f)] = 0)
               => /\ f.status = 200
                  /\ f.followsAfter = AddEdge(f.followsBefore, Edge(f))
                  /\ (/\ Alone(r2, "unfollow") /\ Edge(u) = Edge(f)
                      /\ u.followsBefore = f.followsAfter)
                     => /\ u.status = 200
                        /\ u.followsAfter = f.followsBefore
            /\ (/\ Alone(r1, "unfollow") /\ Alone(r2, "unfollow") /\ r1 # r2
                /\ f.user # f.id /\ Edge(u) = Edge(f)
                /\ f.status = 200
                /\ u.followsBefore = f.followsAfter)
               => /\ u.status = 400
                  /\ u.followsAfter = u.followsBefore

\* follow(A,B) ran alone from a graph without A->B, then unfollow(A,B) ran
\* alone from the graph the follow left, while another edge existed.
C5_Witness ==
    \E r1, r2 \in Reqs :
        /\ Alone(r1, "follow") /\ Alone(r2, "unfollow")
        /\ Edge(req[r1]) = Edge(req[r2])
        /\ req[r1].status = 200 /\ req[r2].status = 200
        /\ req[r1].followsBefore[Edge(req[r1])] = 0
        /\ req[r2].followsBefore = req[r1].followsAfter
        /\ \E e \in Pairs : req[r1].followsBefore[e] > 0

\* C6: when two unfollow(A,B) requests run concurrently while exactly one
\* edge A->B exists, exactly one of them reports success, the other reports
\* NotFollowing (400, not a server error), and the edge is absent afterwards.
C6_ConcurrentUnfollow ==
    \A r1, r2 \in Reqs :
        (/\ r1 # r2
         /\ IsDone(r1, "unfollow") /\ IsDone(r2, "unfollow")
         /\ req[r1].conc /\ req[r2].conc
         /\ req[r1].user # req[r1].id
         /\ Edge(req[r1]) = Edge(req[r2])
         /\ req[r1].followsBefore[Edge(req[r1])] = 1
         /\ req[r2].followsBefore[Edge(req[r1])] = 1)
        => /\ {req[r1].status, req[r2].status} = {200, 400}
           /\ follows[Edge(req[r1])] = 0

\* Both unfollow requests were in flight together with the edge present, and
\* both have been answered, one with 200 and one with 400.
C6_Witness ==
    \E r1, r2 \in Reqs :
        /\ r1 # r2
        /\ IsDone(r1, "unfollow") /\ IsDone(r2, "unfollow")
        /\ req[r1].conc /\ req[r2].conc
        /\ Edge(req[r1]) = Edge(req[r2])
        /\ req[r1].followsBefore[Edge(req[r1])] = 1
        /\ req[r2].followsBefore[Edge(req[r1])] = 1
        /\ req[r1].status = 200 /\ req[r2].status = 400

(***************************************************************************)
(* Like set properties                                                     *)
(***************************************************************************)
\* The likes a like request loaded, before its own push.
Loaded(q) == SubSeq(q.doc.likes, 1, Len(q.doc.likes) - 1)

\* Two finished like requests of different users on the same post, both of
\* which loaded the post and pushed onto their copy.
TwoLikes(r1, r2) ==
    /\ r1 # r2
    /\ IsDone(r1, "like") /\ IsDone(r2, "like")
    /\ req[r1].postId = req[r2].postId
    /\ req[r1].user # req[r2].user
    /\ req[r1].doc # NoDoc /\ req[r2].doc # NoDoc

\* Both loaded the same state of the post, so both reads came before both
\* writes; neither user was in the like set.
ReadReadWriteWrite(r1, r2) ==
    /\ TwoLikes(r1, r2)
    /\ req[r1].doc.v = req[r2].doc.v
    /\ Loaded(req[r1]) = Loaded(req[r2])
    /\ ~Includes(Loaded(req[r1]), req[r1].user)
    /\ ~Includes(Loaded(req[r1]), req[r2].user)

\* r2 loaded what r1's save left, and the post was saved exactly twice since
\* r1 loaded it: read, write, read, write.
ReadWriteReadWrite(r1, r2) ==
    /\ TwoLikes(r1, r2)
    /\ req[r2].doc.v = req[r1].doc.v + 1
    /\ Loaded(req[r2]) = req[r1].doc.likes
    /\ ~Includes(Loaded(req[r1]), req[r1].user)
    /\ ~Includes(Loaded(req[r1]), req[r2].user)
    /\ Exists(req[r1].postId)
    /\ posts[req[r1].postId].v = req[r1].doc.v + 2

\* C1: when like(post, U1) and like(post, U2) run concurrently on the same
\* existing post, U1 # U2 and neither in the like set beforehand, then under
\* every interleaving of their read and write steps both succeed, and the
\* final like set has size pre-count + 2 and holds U1 and U2 once each.
C1_ConcurrentLikesBothCount ==
    \A r1, r2 \in Reqs :
        (ReadReadWriteWrite(r1, r2) \/ ReadWriteReadWrite(r1, r2))
        => /\ req[r1].status = 200 /\ req[r2].status = 200
           /\ Exists(req[r1].postId)
           /\ LET likes == posts[req[r1].postId].likes IN
              /\ Len(likes) = Len(Loaded(req[r1])) + 2
              /\ Occurrences(likes, req[r1].user) = 1
              /\ Occurrences(likes, req[r2].user) = 1

\* Two likes by different users read the post, already liked by a third user,
\* before either saved; both have been answered.
C1_Witness ==
    \E r1, r2 \in Reqs :
        /\ ReadReadWriteWrite(r1, r2)
        /\ Len(Loaded(req[r1])) = 1
        /\ req[r1].status = 200 /\ req[r2].status = 200

\* C2: in every reachable state, after any interleaving of like and unlike
\* requests by any users (two concurrent likes of one user on one post
\* included), the like set of every post holds each user id at most once.
C2_NoDuplicateLikes ==
    \A p \in DOMAIN posts : \A u \in Users : Occurrences(posts[p].likes, u) <= 1

(***************************************************************************)
(* Post deletion and comments                                              *)
(***************************************************************************)
CommentsOn(p) == {c \in DOMAIN comments : comments[c].post = p}

\* Slot r takes a step of its handler.
Steps(r) == req'[r].pc # req[r].pc

\* C7: after a successful deletePost by the owner of a post that had N >= 0
\* comments, no comment references that post id, getPost on that id fails
\* with NotFound (404), and the comments of every other post are unchanged.
C7_DeletePostCascade ==
    /\ [](\A r \in Reqs :
            (IsDone(r, "deletePost") /\ req[r].status = 200)
                => /\ ~Exists(req[r].postId)
                   /\ CommentsOn(req[r].postId) = {})
    /\ [][\A r, d \in Reqs :
            (/\ IsDone(d, "deletePost") /\ req[d].status = 200
             /\ req[r].op = "getPost" /\ req[r].pc = "findById"
             /\ req[r].postId = req[d].postId
             /\ Steps(r))
                => req'[r].pc = "done" /\ req'[r].status = 404]_vars
    /\ [][\A r \in Reqs :
            (req[r].op = "deletePost" /\ InFlight(r) /\ Steps(r))
                => \A c \in DOMAIN comments :
                      comments[c].post # req[r].postId
                          => c \in DOMAIN comments' /\ comments'[c] = comments[c]]_vars

\* C8: in every reachable state no comment references a post that does not
\* exist, also when an addComment on a post interleaves with a deletePost of
\* the same post (the post-existence check before the cascade, the insert
\* after it).
C8_NoOrphanComments == \A c \in DOMAIN comments : Exists(comments[c].post)

(***************************************************************************)
(* Feed                                                                    *)
(***************************************************************************)
\* The posts whose owner is v or a user v follows, as the store has them.
ScopePosts(v) ==
    {q \in DOMAIN posts : posts[q].user = v \/ follows[<<v, posts[q].user>>] > 0}

Newer(S, q) == {x \in S : posts[x].createdAt > posts[q].createdAt}
NotOlder(S, q) == {x \in S : posts[x].createdAt >= posts[q].createdAt}

\* The page of request r is a page of the posts in scope, newest first: it
\* has the length of the range (page-1)*limit+1 .. page*limit cut at the
\* number of posts in scope, holds posts in scope only, none twice, and the
\* post at place i of the page can stand at place (page-1)*limit+i of the
\* posts in scope sorted by createdAt descending.
FeedPageOf(r) ==
    LET v == req[r].user
        S == ScopePosts(v)
        skip == (req[r].page - 1) * req[r].limit
        page == req[r].feedPosts
        rest == IF Cardinality(S) > skip THEN Cardinality(S) - skip ELSE 0
    IN  /\ Len(page) = Min(req[r].limit, rest)
        /\ \A i \in DOMAIN page :
              /\ page[i] \in S
              /\ \A j \in DOMAIN page : page[i] = page[j] => i = j
              /\ Cardinality(Newer(S, page[i])) <= skip + i - 1
              /\ Cardinality(NotOlder(S, page[i])) >= skip + i
        /\ \A q \in DOMAIN posts :
              (posts[q].user # v /\ follows[<<v, posts[q].user>>] = 0)
                 => ~Includes(page, q)
        /\ \A q \in DOMAIN posts :
              (posts[q].user = v /\ Cardinality(NotOlder(S, q)) <= skip + Len(page)
                                /\ Cardinality(Newer(S, q)) >= skip)
                 => Includes(page, q)

\* C10: with no write during the request, the feed for viewer V with page
\* p >= 1 and limit L answers with exactly the elements (p-1)*L+1 .. p*L of the posts
\* owned by V or by a user V follows, sorted by createdAt descending; V's own
\* posts are included and posts of users V does not follow are not.
C10_FeedPageOfScope ==
    [][\A r \in Reqs :
          (~IsDone(r, "feed") /\ IsDone(r, "feed")' /\ ~req'[r].conc
             /\ req'[r].page >= 1)
             => FeedPageOf(r)']_vars

\* A second page of one post answered while the viewer has a post of their
\* own on it and a user they do not follow has a post in the store.
C10_Witness ==
    \E r \in Reqs :
       /\ IsDone(r, "feed") /\ ~req[r].conc
       /\ req[r].page = 2 /\ req[r].limit = 1
       /\ req[r].seen = DOMAIN posts
       /\ \E i \in DOMAIN req[r].feedPosts :
             posts[req[r].feedPosts[i]].user = req[r].user
       /\ \E q \in DOMAIN posts :
             /\ posts[q].user # req[r].user
             /\ follows[<<req[r].user, posts[q].user>>] = 0

\* Request a answered page 1 and request b, later, page 2 for the same viewer,
\* limit and scope, and a post of a user in that scope was created between
\* the two queries.
PostInsertedBetween(a, b) ==
    /\ IsDone(a, "feed") /\ IsDone(b, "feed")
    /\ req[a].user = req[b].user
    /\ req[a].page = 1 /\ req[b].page = 2
    /\ req[a].limit = req[b].limit
    /\ req[a].scope = req[b].scope
    /\ req[a].seen \subseteq req[b].seen
    /\ \E q \in req[b].seen \ req[a].seen : posts[q].user \in req[a].scope

\* The posts in scope that page 1 was drawn from.
BeforeFirstPage(a) == {q \in req[a].seen : posts[q].user \in req[a].scope}

\* C9: when a viewer fetches page 1 and then page 2 of the feed with the same
\* limit and a post of a user in scope is created between the two, no post of
\* page 1 appears again on page 2, and every post that existed before page 1
\* and belongs to the first 2*limit places is on one of the two pages.
C9_FeedPagesStable ==
    \A a, b \in Reqs :
       PostInsertedBetween(a, b) =>
          /\ \A i \in DOMAIN req[a].feedPosts :
                ~Includes(req[b].feedPosts, req[a].feedPosts[i])
          /\ \A q \in BeforeFirstPage(a) :
                Cardinality(NotOlder(BeforeFirstPage(a), q)) <= 2 * req[a].limit
                   => \/ Includes(req[a].feedPosts, q)
                      \/ Includes(req[b].feedPosts, q)

\* Requests a and b answered the feed of the same viewer with the same limit
\* from the same posts and the same scope.
SameStore(a, b) ==
    /\ IsDone(a, "feed") /\ IsDone(b, "feed")
    /\ req[a].user = req[b].user
    /\ req[a].limit = req[b].limit
    /\ req[a].scope = req[b].scope
    /\ req[a].seen = req[b].seen

\* C11: the feed order is total: two posts in scope with the same createdAt
\* come in descending _id order, so fetches of the pages over an unchanged
\* store return each post on exactly one page (the same page the same way,
\* different pages without a common post).
C11_FeedOrderTotal ==
    /\ \A r \in Reqs :
          IsDone(r, "feed") =>
             \A i, j \in DOMAIN req[r].feedPosts :
                (/\ i < j
                 /\ posts[req[r].feedPosts[i]].createdAt
                       = posts[req[r].feedPosts[j]].createdAt)
                   => req[r].feedPosts[i] > req[r].feedPosts[j]
    /\ \A a, b \in Reqs :
          SameStore(a, b) =>
             IF req[a].page = req[b].page
             THEN req[a].feedPosts = req[b].feedPosts
             ELSE \A i \in DOMAIN req[a].feedPosts :
                     ~Includes(req[b].feedPosts, req[a].feedPosts[i])

(***************************************************************************)
(* Like and unlike, one after the other                                    *)
(***************************************************************************)
\* C12: like(post, U) with U already in the like set fails with 400 (already
\* liked) and leaves the like set as it was; like(post, U) and then
\* unlike(post, U), with U not a liker at the start and no other request in
\* between, both answer 200 and bring the like set and the like count back to
\* what they were.
C12_LikeConflictAndRoundTrip ==
    /\ [][\A r \in Reqs :
            (/\ req[r].op = "like" /\ req[r].pc = "findById" /\ Steps(r)
             /\ Exists(req[r].postId)
             /\ Includes(posts[req[r].postId].likes, req[r].user))
                => /\ req'[r].pc = "done" /\ req'[r].status = 400
                   /\ posts' = posts]_vars
    /\ [][\A r \in Reqs :
            (/\ req[r].op = "like" /\ req[r].pc = "save" /\ Steps(r)
             /\ ~req[r].conc)
                => /\ Exists(req[r].postId)
                   /\ ~Includes(posts[req[r].postId].likes, req[r].user)
                   /\ req'[r].pc = "done" /\ req'[r].status = 200
                   /\ posts'[req[r].postId].likes
                         = Append(posts[req[r].postId].likes, req[r].user)
                   /\ req'[r].likeCount = Len(posts[req[r].postId].likes) + 1]_vars
    /\ [][\A r, l \in Reqs :
            (/\ req[r].op = "unlike" /\ req[r].pc = "save" /\ Steps(r)
             /\ ~req[r].conc
             /\ Alone(l, "like") /\ req[l].status = 200
             /\ req[l].user = req[r].user /\ req[l].postId = req[r].postId
             /\ Exists(req[r].postId)
             /\ posts[req[r].postId].v = req[l].doc.v + 1
             /\ posts[req[r].postId].likes = req[l].doc.likes)
                => /\ req'[r].pc = "done" /\ req'[r].status = 200
                   /\ posts'[req[r].postId].likes = Loaded(req[l])
                   /\ req'[r].likeCount = Len(Loaded(req[l]))]_vars

\* A like and then an unlike of the same user on a post another user likes,
\* each running alone, both answered 200; the like set is the one the like
\* loaded.
C12_Witness ==
    \E r, l \in Reqs :
        /\ Alone(l, "like") /\ req[l].status = 200
        /\ Alone(r, "unlike") /\ req[r].status = 200
        /\ req[l].user = req[r].user /\ req[l].postId = req[r].postId
        /\ req[r].doc.v = req[l].doc.v + 1
        /\ Len(Loaded(req[l])) = 1
        /\ Exists(req[r].postId)
        /\ posts[req[r].postId].likes = Loaded(req[l])
        /\ req[r].likeCount = 1

(***************************************************************************)
(* Readers during a post deletion                                          *)
(***************************************************************************)
\* C13: no reader sees a half-done post deletion: a getPost that interleaves
\* with a deletePost of the same post never answers with the post while
\* comments the cascade of that deletion removed are missing from its answer.
C13_NoHalfDeletedPost ==
    [][\A r, d \in Reqs :
          (/\ req[r].op = "getPost" /\ req[r].pc = "findComments" /\ Steps(r)
           /\ req'[r].status = 200
           /\ req[d].op = "deletePost" /\ req[d].postId = req[r].postId)
             => \A c \in req[d].removed : Includes(req'[r].commentList, c)]_vars

(***************************************************************************)
(* Rules of the post and comment routes                                    *)
(***************************************************************************)
\* Slot r takes the step that follows the store operation named pc.
StepsAt(r, op, pc) == req[r].op = op /\ req[r].pc = pc /\ Steps(r)

\* C14: deletePost by a requester who is not the owner of the post fails
\* with 401 (not the owner) and leaves the post and every comment on it as
\* they were; with an id no post has it fails with 404 and changes nothing.
C14_DeletePostRefused ==
    /\ [][\A r \in Reqs :
            StepsAt(r, "deletePost", "findById") =>
               /\ posts' = posts /\ comments' = comments
               /\ ~Exists(req[r].postId)
                     => req'[r].pc = "done" /\ req'[r].status = 404
               /\ (Exists(req[r].postId) /\ posts[req[r].postId].user # req[r].user)
                     => req'[r].pc = "done" /\ req'[r].status = 401]_vars
    /\ [](\A r \in Reqs :
            (IsDone(r, "deletePost") /\ req[r].status \in {401, 404})
               => req[r].removed = {})

\* u2's deletePost of u1's post was refused with 401 while the post had a
\* comment, which is still there, and a deletePost of an unknown id was
\* answered 404.
C14_Witness ==
    \E r1, r2 \in Reqs :
        /\ IsDone(r1, "deletePost") /\ req[r1].status = 401
        /\ Exists(req[r1].postId)
        /\ CommentsOn(req[r1].postId) # {}
        /\ IsDone(r2, "deletePost") /\ req[r2].status = 404

\* C15: deleteComment removes exactly that comment when the requester is its
\* author; for any other requester, the owner of the post included, it fails
\* with 401, and for an id no comment has it fails with 404, in both cases
\* leaving all comments as they were.
C15_DeleteCommentRules ==
    /\ [][\A r \in Reqs :
            StepsAt(r, "deleteComment", "findById") =>
               /\ comments' = comments
               /\ req[r].commentId \notin DOMAIN comments
                     => req'[r].pc = "done" /\ req'[r].status = 404
               /\ (/\ req[r].commentId \in DOMAIN comments
                   /\ comments[req[r].commentId].user # req[r].user)
                     => req'[r].pc = "done" /\ req'[r].status = 401
               /\ (/\ req[r].commentId \in DOMAIN comments
                   /\ comments[req[r].commentId].user = req[r].user)
                     => req'[r].pc = "deleteOne"]_vars
    /\ [][\A r \in Reqs :
            StepsAt(r, "deleteComment", "deleteOne") =>
               /\ req'[r].pc = "done" /\ req'[r].status = 200
               /\ DOMAIN comments' = DOMAIN comments \ {req[r].commentId}
               /\ \A c \in DOMAIN comments' : comments'[c] = comments[c]
               /\ posts' = posts]_vars

\* The author's deleteComment was answered 200 and its comment is gone, while
\* the post owner's deleteComment of another comment was refused with 401 and
\* that comment is still there.
C15_Witness ==
    \E r1, r2 \in Reqs :
        /\ IsDone(r1, "deleteComment") /\ req[r1].status = 200
        /\ req[r1].commentId \notin DOMAIN comments
        /\ IsDone(r2, "deleteComment") /\ req[r2].status = 401
        /\ req[r2].commentId \in DOMAIN comments
        /\ Exists(comments[req[r2].commentId].post)
        /\ posts[comments[req[r2].commentId].post].user = req[r2].user

\* The text as the claim sees it: empty after trimming, or longer than 1000
\* characters.
EmptyAfterTrim(text) == text.chars = 0
TooLong(text) == text.chars > MaxCommentLength

\* C16: addComment with a text that is empty after trimming or longer than
\* 1000 characters is answered 400 before any store access and creates no
\* comment; with a valid text on a post that does not exist it is answered
\* 404 and creates no comment; otherwise it creates exactly one comment, for
\* that post and author.
C16_AddCommentRules ==
    /\ [](\A r \in Reqs :
            (req[r].op = "addComment"
               /\ (EmptyAfterTrim(req[r].text) \/ TooLong(req[r].text)))
               => req[r].pc = "done" /\ req[r].status = 400)
    /\ [][\A r \in Reqs :
            StepsAt(r, "addComment", "findById") =>
               /\ comments' = comments
               /\ ~Exists(req[r].postId)
                     => req'[r].pc = "done" /\ req'[r].status = 404
               /\ Exists(req[r].postId) => req'[r].pc = "create"]_vars
    /\ [][\A r \in Reqs :
            StepsAt(r, "addComment", "create") =>
               /\ req'[r].pc = "done" /\ req'[r].status = 201
               /\ \E c \in DOMAIN comments' \ DOMAIN comments :
                     /\ DOMAIN comments' = DOMAIN comments \cup {c}
                     /\ comments'[c].post = req[r].postId
                     /\ comments'[c].user = req[r].user
               /\ \A c \in DOMAIN comments : comments'[c] = comments[c]]_vars

\* C17: listing the comments of a post id that no post has fails with 404
\* and not with a successful empty list.
C17_ListCommentsOfMissingPost ==
    [][\A r \in Reqs :
          (/\ req'[r] # req[r]
           /\ req'[r].op = "listComments"
           /\ ~Exists(req'[r].postId))
             => req'[r].status = 404]_vars

(***************************************************************************)
(* Store operations of the feed                                            *)
(***************************************************************************)
\* C18: the comment counts of a feed page of n posts come from a single
\* grouped-count store operation for the whole page: the operation that
\* brings a comment count brings the counts of all posts of the page.
C18_SingleGroupedCount ==
    [][\A r \in Reqs :
          (/\ req[r].op = "feed" /\ req[r].pc = "countComments"
           /\ req'[r].feedCounts # req[r].feedCounts)
             => \A i \in DOMAIN req'[r].feedCounts :
                   req'[r].feedCounts[i] # NotCounted]_vars

(***************************************************************************)
(* Like and unlike at the same time                                        *)
(***************************************************************************)
Members(likes) == {likes[i] : i \in DOMAIN likes}

\* unlike request a of a liker and like request b of another user, not a
\* liker, ran at the same time on the same post: both loaded the same state
\* of the post, and both have been answered.
UnlikeWithLike(a, b) ==
    /\ IsDone(a, "unlike") /\ IsDone(b, "like")
    /\ req[a].conc /\ req[b].conc
    /\ req[a].postId = req[b].postId
    /\ req[a].user # req[b].user
    /\ req[a].doc # NoDoc /\ req[b].doc # NoDoc
    /\ req[a].doc.v = req[b].doc.v
    /\ Includes(Loaded(req[b]), req[a].user)
    /\ ~Includes(Loaded(req[b]), req[b].user)
    /\ Exists(req[a].postId)

\* C19: no like is lost between like and unlike: when unlike(post, U1), U1 a
\* liker, and like(post, U2), U2 # U1 not a liker, run at the same time on
\* one post, then under every interleaving both answer 200 and the final like
\* set is the initial one without U1 and with U2.
C19_UnlikeAndLikeBothApply ==
    \A a, b \in Reqs :
        UnlikeWithLike(a, b) =>
            /\ req[a].status = 200 /\ req[b].status = 200
            /\ Members(posts[req[a].postId].likes)
                  = (Members(Loaded(req[b])) \ {req[a].user}) \cup {req[b].user}

(***************************************************************************)
(* Follow: unknown target, existing edge                                   *)
(***************************************************************************)
\* C20: follow(A, T) with A # T and T not an existing user fails with 404 and
\* creates no edge, so every follow edge of every reachable state points at
\* an existing user (users are never deleted); follow(A, T) with an existing
\* edge A->T fails with 400 (already following) and leaves the graph as it
\* was.
C20_FollowTargetAndDuplicate ==
    /\ [](\A e \in Pairs : follows[e] > 0 => e[2] \in Users)
    /\ [](\A r \in Reqs :
            (/\ IsDone(r, "follow")
             /\ req[r].user # req[r].id /\ req[r].id \notin Users)
               => /\ req[r].status = 404
                  /\ req[r].followsAfter[Edge(req[r])] = 0)
    /\ [][\A r \in Reqs :
            (req[r].op = "follow" /\ req[r].id \notin Users /\ Steps(r))
               => follows' = follows]_vars
    /\ [](\A r \in Reqs :
            (/\ Alone(r, "follow")
             /\ req[r].followsBefore[Edge(req[r])] > 0)
               => /\ req[r].status = 400
                  /\ req[r].followsAfter = req[r].followsBefore)
    /\ [][\A r \in Reqs :
            (/\ StepsAt(r, "follow", "findExisting")
             /\ follows[Edge(req[r])] > 0)
               => /\ req'[r].pc = "done" /\ req'[r].status = 400
                  /\ follows' = follows]_vars

\* A follow of an unknown user was answered 404 and a follow of an already
\* followed user 400, with that one edge in the graph.
C20_Witness ==
    \E r1, r2 \in Reqs :
        /\ IsDone(r1, "follow") /\ req[r1].id \notin Users
        /\ req[r1].status = 404
        /\ Alone(r2, "follow") /\ req[r2].status = 400
        /\ req[r2].user # req[r2].id
        /\ req[r2].followsBefore[Edge(req[r2])] = 1
        /\ follows[Edge(req[r2])] = 1

(***************************************************************************)
(* Feed pagination                                                         *)
(***************************************************************************)
\* The answer of request r carries the pagination of the posts in scope:
\* total is their number, pages is the least number of pages of limit posts
\* that hold them, and a page past the last one is empty.
PaginationOf(r) ==
    LET n == Cardinality(ScopePosts(req[r].user)) IN
    /\ req[r].status = 200
    /\ req[r].total = n
    /\ req[r].pages * req[r].limit >= n
    /\ (req[r].pages - 1) * req[r].limit < n
    /\ (req[r].page - 1) * req[r].limit >= n => req[r].feedPosts = <<>>

\* C21: for every feed request with no write during it, pagination.total is
\* the number of posts owned by the viewer or a followed user,
\* pagination.pages is ceil(total / limit), and a request for a page past the
\* last one, or by a viewer with no post in scope, is answered 200 with an
\* empty list of posts and not with an error.
C21_FeedPagination ==
    [][\A r \in Reqs :
          (~IsDone(r, "feed") /\ IsDone(r, "feed")' /\ ~req'[r].conc)
             => PaginationOf(r)']_vars

(***************************************************************************)
(* Post details: isLiked, commentCount, comments                           *)
(***************************************************************************)
\* Every post of the feed page of request r carries the viewer's membership
\* in its like set and the number of comments that reference it.
FeedDetailsOf(r) ==
    \A i \in DOMAIN req[r].feedPosts :
       LET q == req[r].feedPosts[i] IN
       /\ req[r].feedLiked[i] = (req[r].user \in Members(posts[q].likes))
       /\ req[r].feedCounts[i] = Cardinality(CommentsOn(q))

\* The answer of getPost request r carries the viewer's membership in the
\* like set of the post and all comments of the post, each once, newest
\* first.
PostDetailsOf(r) ==
    LET list == req[r].commentList IN
    /\ req[r].isLiked = (req[r].user \in Members(posts[req[r].postId].likes))
    /\ Members(list) = CommentsOn(req[r].postId)
    /\ Len(list) = Cardinality(CommentsOn(req[r].postId))
    /\ \A i, j \in DOMAIN list :
          i < j => comments[list[i]].createdAt >= comments[list[j]].createdAt

\* C22: with no write during the request, every post of a returned feed page
\* carries isLiked equal to whether the viewer is in its like set and
\* commentCount equal to the number of comments that reference it; getPost
\* reports isLiked as the viewer's membership in the like set and returns all
\* comments of the post newest first.
C22_PostDetails ==
    /\ [][\A r \in Reqs :
            (/\ ~IsDone(r, "feed") /\ IsDone(r, "feed")'
             /\ ~req'[r].conc /\ req'[r].status = 200)
               => FeedDetailsOf(r)']_vars
    /\ [][\A r \in Reqs :
            (/\ ~IsDone(r, "getPost") /\ IsDone(r, "getPost")'
             /\ ~req'[r].conc /\ req'[r].status = 200)
               => PostDetailsOf(r)']_vars

\* A feed page of two posts was answered: the viewer likes one of them, which
\* has two comments, and does not like the other, which another user likes
\* and which has no comment.
C22_Witness ==
    \E r \in Reqs :
       /\ IsDone(r, "feed") /\ ~req[r].conc /\ req[r].status = 200
       /\ Len(req[r].feedPosts) = 2
       /\ \E i, j \in DOMAIN req[r].feedPosts :
             /\ req[r].feedLiked[i] /\ req[r].feedCounts[i] = 2
             /\ ~req[r].feedLiked[j] /\ req[r].feedCounts[j] = 0
             /\ Exists(req[r].feedPosts[j])
             /\ posts[req[r].feedPosts[j]].likes # <<>>

====
